---------------------------- MODULE Spec2Model ----------------------------
(***************************************************************************)
(* A model of _scripts/update_config.py: the key annotator                 *)
(* (add_at_prefix_to_keys), the three AMF3 record handlers, the Flash      *)
(* extraction loop (Flash.get_configs), the downloader                     *)
(* (download_data_async), the version methods of Platform and the update   *)
(* loop of main.                                                           *)
(*                                                                         *)
(* Python values are modelled as tagged records:                           *)
(*   [t |-> "s",    v |-> <string>]        a scalar                        *)
(*   [t |-> "map",  m |-> <<<<k, v>>, ..>>] a dict, in insertion order     *)
(*   [t |-> "list", l |-> <<v, ..>>]       a list                          *)
(*   [t |-> "ref",  id |-> n]              a reference to heap object n    *)
(* A dict is a sequence of <<key, value>> pairs with distinct keys, so     *)
(* that insertion order and overwriting an existing key are both visible.  *)
(***************************************************************************)
EXTENDS Integers, Sequences, FiniteSets, TLC

VARIABLES
    aPc,        \* add_at_prefix_to_keys call: "call" | "done" | "off"
    aIn,        \* the argument of the call
    aOut,       \* the value returned
    heap,       \* the decoded objects: object id -> dict
    hData,      \* the decoded list handed to a handler: references into heap
    hPc,        \* handler call: "ready" | "returned" | "raised" | "off"
    hName,      \* the handler called last
    hRet,       \* what it returned (None when it raised)
    hPrev,      \* the argument of the last call, as a tree
    hCalls,     \* the number of handler calls made so far
    swf,        \* the response for RobotCoreDLL.swf: [http, zlib, segs]
    fPc,        \* Flash.get_configs: "download" | "extract" | "loop" | "done" | "raised" | "off"
    fIdx,       \* the position of the segment loop in swf_configs.items()
    fExc,       \* the exception get_configs raised ("none" while it runs)
    fDone,      \* one record per segment the loop has taken up, in order
    fReaders,   \* one record per AMF3Reader constructed: its tables before and after read_object
    files,      \* the .xml files of work_dir: filename -> bytes
    mPc,        \* main: "read" | "check" | "get_configs" | "save" | "commit" | "done" | "raised" | "off"
    mIdx,       \* the position of main's loop in platforms (1 flash, 2 html5, 3 unity)
    remote,     \* platform -> the version its server publishes now
    versionFile,    \* platform -> its .version file
    versionFile0,   \* platform -> its .version file when main started
    mRemoteVersion, \* main's local remote_version
    mChecked,   \* the remote version check_update compared for this platform
    commits,    \* the commits main has created, in order
    pushed,     \* the number of pushes
    published,  \* the number of version changes published while main runs
    dPc,        \* download_data_async: "enter" | "loop" | "request" | "await" | "sleep" | "done" | "raised" | "off"
    dTasks,     \* tasks: the filename of each (url, filename), in order
    dMaxConcurrency,    \* max_concurrency
    dMaxRetries,        \* max_retries
    dSem,       \* the value of the asyncio.Semaphore
    dInFlight,  \* the number of client.get requests awaiting their response
    dIdx,       \* the position of the for loop in tasks
    dAttempt,   \* attempt
    dBackoff,   \* backoff_seconds, in milliseconds
    dResponses, \* per task: what each of its requests was answered with, in order
    dSleeps,    \* per task: the length of each asyncio.sleep, in milliseconds
    dFiles,     \* output_dir: filename -> content
    dFiles0,    \* output_dir when the call started
    dWrites,    \* the task of every write_bytes so far, in order
    dPrinted,   \* the completion message has been printed
    dExc,       \* the exception the call raised ("none" otherwise)
    pLast,      \* the last call of a Platform method made outside main, with its result
    pFresh      \* platform -> save_remote_version has run and the remote has not changed since

annotVars == <<aPc, aIn, aOut>>
handlerVars == <<heap, hData, hPc, hName, hRet, hPrev, hCalls>>
flashVars == <<swf, fPc, fIdx, fExc, fDone, fReaders, files>>
mainVars == <<mPc, mIdx, remote, versionFile, versionFile0, mRemoteVersion,
              mChecked, commits, pushed, published>>
downloadVars == <<dPc, dTasks, dMaxConcurrency, dMaxRetries, dSem, dInFlight, dIdx,
                  dAttempt, dBackoff, dResponses, dSleeps, dFiles, dFiles0, dWrites,
                  dPrinted, dExc>>
platformVars == <<pLast, pFresh>>
vars == <<annotVars, handlerVars, flashVars, mainVars, downloadVars, platformVars>>

----------------------------------------------------------------------------
(* Bounds and value constructors *)

MaxNodes == 4

Keys == {"a", "b", "@a"}
Scalars == {"0", "1"}

None == [t |-> "none"]
Scalar(v) == [t |-> "s", v |-> v]
Map(items) == [t |-> "map", m |-> items]
List(elems) == [t |-> "list", l |-> elems]

IsMap(x) == x.t = "map"
IsList(x) == x.t = "list"

----------------------------------------------------------------------------
(* Python dict operations on the ordered-pair representation *)

HasKey(items, k) == \E i \in DOMAIN items : items[i][1] = k

KeyIndex(items, k) == CHOOSE i \in DOMAIN items : items[i][1] = k

\* d[k]: defined only when HasKey(items, k)
Get(items, k) == items[KeyIndex(items, k)][2]

\* d[k] = v: overwrites in place when k is present, appends otherwise
DictSet(items, k, v) ==
    IF HasKey(items, k)
    THEN [items EXCEPT ![KeyIndex(items, k)] = <<k, v>>]
    ELSE Append(items, <<k, v>>)

\* d.pop(k): defined only when HasKey(items, k)
DictPop(items, k) ==
    LET i == KeyIndex(items, k)
    IN  SubSeq(items, 1, i - 1) \o SubSeq(items, i + 1, Len(items))

----------------------------------------------------------------------------
(* add_at_prefix_to_keys *)

NewKeyBare(key) == key

\* new_key = f"@{key}"
NewKey(key) == "@" \o key

\* the key a list value is stored under: result[key] = [...]
ListKey(key) == key

RECURSIVE AddAtPrefixToKeys(_)
RECURSIVE AnnotateItems(_, _)

\* the loop over data.items(), result being the dict built so far
AnnotateItems(items, result) ==
    IF items = <<>> THEN result
    ELSE LET key == Head(items)[1]
             value == Head(items)[2]
         IN  AnnotateItems(Tail(items),
                 IF IsList(value)
                 THEN DictSet(result, ListKey(key),
                          List([i \in DOMAIN value.l |-> AddAtPrefixToKeys(value.l[i])]))
                 ELSE IF IsMap(value)
                 THEN DictSet(result, NewKey(key), AddAtPrefixToKeys(value))
                 ELSE DictSet(result, NewKey(key), value))

AddAtPrefixToKeys(data) ==
    IF IsMap(data) THEN Map(AnnotateItems(data.m, <<>>))
    ELSE IF IsList(data)
    THEN List([i \in DOMAIN data.l |-> AddAtPrefixToKeys(data.l[i])])
    ELSE data

----------------------------------------------------------------------------
(* The inputs of add_at_prefix_to_keys: every tree of at most MaxNodes     *)
(* nodes over Keys and Scalars.                                            *)

KeySeqs(n) == {s \in [1..n -> Keys] : \A i, j \in 1..n : i # j => s[i] # s[j]}

RECURSIVE TreesOfSize(_)
RECURSIVE ForestsOfSize(_)

\* the sequences of trees with n nodes in all
ForestsOfSize(n) ==
    IF n = 0 THEN {<<>>}
    ELSE UNION {{<<t>> \o f : t \in TreesOfSize(j), f \in ForestsOfSize(n - j)} : j \in 1..n}

TreesOfSize(n) ==
    (IF n = 1 THEN {Scalar(v) : v \in Scalars} ELSE {})
    \cup {List(f) : f \in ForestsOfSize(n - 1)}
    \cup UNION {{Map([i \in DOMAIN f |-> <<ks[i], f[i]>>]) : ks \in KeySeqs(Len(f))}
                : f \in ForestsOfSize(n - 1)}

Trees == UNION {TreesOfSize(n) : n \in 1..MaxNodes}

----------------------------------------------------------------------------
(* The call of add_at_prefix_to_keys on one input *)

OffAnnot == aPc = "off" /\ aIn = None /\ aOut = None

OffHandlers ==
    /\ heap = <<>> /\ hData = <<>> /\ hPc = "off" /\ hName = "none"
    /\ hRet = None /\ hPrev = None /\ hCalls = 0

NoSwf == [http |-> "ok", zlib |-> "ok", segs |-> <<>>]

OffFlash ==
    /\ swf = NoSwf /\ fPc = "off" /\ fIdx = 0 /\ fExc = "none"
    /\ fDone = <<>> /\ fReaders = <<>> /\ files = <<>>

OffMain ==
    /\ mPc = "off" /\ mIdx = 0 /\ remote = <<>> /\ versionFile = <<>>
    /\ versionFile0 = <<>> /\ mRemoteVersion = <<>> /\ mChecked = <<>>
    /\ commits = <<>> /\ pushed = 0 /\ published = 0

OffPlatform == pLast = None /\ pFresh = <<>>

OffDownload ==
    /\ dPc = "off" /\ dTasks = <<>> /\ dMaxConcurrency = 0 /\ dMaxRetries = 0
    /\ dSem = 0 /\ dInFlight = 0 /\ dIdx = 0 /\ dAttempt = 0 /\ dBackoff = 0
    /\ dResponses = <<>> /\ dSleeps = <<>> /\ dFiles = <<>> /\ dFiles0 = <<>>
    /\ dWrites = <<>> /\ dPrinted = FALSE /\ dExc = "none"

InitAnnot ==
    /\ aPc = "call"
    /\ aIn \in Trees
    /\ aOut = None
    /\ OffHandlers
    /\ OffFlash
    /\ OffMain
    /\ OffDownload
    /\ OffPlatform

CallAddAtPrefixToKeys ==
    /\ aPc = "call"
    /\ aOut' = AddAtPrefixToKeys(aIn)
    /\ aPc' = "done"
    /\ UNCHANGED <<aIn, handlerVars, flashVars, mainVars, downloadVars, platformVars>>

NextAnnot == CallAddAtPrefixToKeys

SpecAnnot == InitAnnot /\ [][NextAnnot]_vars

----------------------------------------------------------------------------
(* C1 *)

\* a map in which a list-valued key is "@" + a non-list key of the same map:
\* the two are stored under the same output key
Collides(items) ==
    \E i, j \in DOMAIN items :
        /\ IsList(items[i][2])
        /\ ~IsList(items[j][2])
        /\ items[i][1] = "@" \o items[j][1]

RECURSIVE CollisionFree(_)
CollisionFree(tree) ==
    IF IsMap(tree)
    THEN /\ ~Collides(tree.m)
         /\ \A i \in DOMAIN tree.m : CollisionFree(tree.m[i][2])
    ELSE IF IsList(tree) THEN \A i \in DOMAIN tree.l : CollisionFree(tree.l[i])
    ELSE TRUE

\* the key rule, read off an (input, output) pair position by position
RECURSIVE KeyRule(_, _)
KeyRule(in, out) ==
    IF IsMap(in)
    THEN /\ IsMap(out)
         /\ Len(out.m) = Len(in.m)
         /\ \A i \in DOMAIN in.m :
              /\ out.m[i][1] = IF IsList(in.m[i][2]) THEN in.m[i][1]
                               ELSE "@" \o in.m[i][1]
              /\ KeyRule(in.m[i][2], out.m[i][2])
    ELSE IF IsList(in)
    THEN /\ IsList(out)
         /\ Len(out.l) = Len(in.l)
         /\ \A i \in DOMAIN in.l : KeyRule(in.l[i], out.l[i])
    ELSE out = in

\* C1 as stated: for every tree, list-valued keys stay bare, every other key
\* gains exactly one "@", list elements are annotated by the same rule, and no
\* key is dropped or added.
C1_KeyRuleEveryTree == aPc = "done" => KeyRule(aIn, aOut)

\* C1 amended: the key rule holds for every tree in which no map holds a
\* list-valued key "@k" beside a non-list key "k".
C1_KeyRuleCollisionFree ==
    (aPc = "done" /\ CollisionFree(aIn)) => KeyRule(aIn, aOut)

\* {"a": [{"b": "0"}]} has been annotated to {"a": [{"@b": "0"}]}
C1_Witness ==
    /\ aPc = "done"
    /\ aIn = Map(<< <<"a", List(<< Map(<< <<"b", Scalar("0")>> >>) >>)>> >>)
    /\ aOut = Map(<< <<"a", List(<< Map(<< <<"@b", Scalar("0")>> >>) >>)>> >>)

----------------------------------------------------------------------------
(* The decoded objects a handler receives.  AMF3Reader.read_object returns  *)
(* a list of dicts in which an object the stream encodes by reference is    *)
(* one shared Python object; the heap keeps that identity.                  *)

MaxLen == 3

Ref(id) == [t |-> "ref", id |-> id]
Dict1(k, v) == Map(<< <<k, v>> >>)

\* heap objects 1..3: categories; 1 and 2 are separate objects with the same ID
CatIds == {1, 2, 3}
\* heap objects 4..6: items
ItemIds == {4, 5, 6}
\* heap objects 7..10: the pairs {catObj, itemObj} of the item table
PairIds == {7, 8, 9, 10}
\* heap objects 11, 12: flat records, with and without __class__
FlatIds == {11, 12}

InitHeap ==
    << << <<"ID", Scalar("1")>> >>,
       << <<"ID", Scalar("1")>> >>,
       << <<"ID", Scalar("2")>> >>,
       << <<"name", Scalar("sword")>> >>,
       << <<"name", Scalar("shield")>> >>,
       << <<"name", Scalar("potion")>> >>,
       << <<"catObj", Ref(1)>>, <<"itemObj", Ref(4)>> >>,
       << <<"catObj", Ref(1)>>, <<"itemObj", Ref(5)>> >>,
       << <<"catObj", Ref(2)>>, <<"itemObj", Ref(5)>> >>,
       << <<"catObj", Ref(3)>>, <<"itemObj", Ref(6)>> >>,
       << <<"__class__", Scalar("GoldProduct")>>, <<"a", Scalar("0")>> >>,
       << <<"a", Scalar("1")>> >> >>

SeqsUpTo(S, n) == UNION {[1..k -> S] : k \in 0..n}

DataLists == SeqsUpTo({Ref(id) : id \in PairIds \cup FlatIds}, MaxLen)

\* the tree a value denotes in heap h (what a traversal of the value reads)
RECURSIVE Deref(_, _)
Deref(h, v) ==
    IF v.t = "ref"
    THEN Map([i \in DOMAIN h[v.id] |-> <<h[v.id][i][1], Deref(h, h[v.id][i][2])>>])
    ELSE IF IsList(v) THEN List([i \in DOMAIN v.l |-> Deref(h, v.l[i])])
    ELSE IF IsMap(v) THEN Map([i \in DOMAIN v.m |-> <<v.m[i][1], Deref(h, v.m[i][2])>>])
    ELSE v

----------------------------------------------------------------------------
(* The record handlers.  Each returns [heap, ret, exc]: the heap as the     *)
(* call leaves it, the value returned (None when it raised) and the         *)
(* exception raised ("none" when it returned).                              *)

Returned(h, tree) == [heap |-> h, ret |-> tree, exc |-> "none"]
Raised(h, e) == [heap |-> h, ret |-> None, exc |-> e]

WrapRootTwice(h, tree) ==
    Dict1("root", AddAtPrefixToKeys(AddAtPrefixToKeys(Deref(h, tree))))

WrapRootBare(h, tree) == Dict1("root", Deref(h, tree))

\* {"root": add_at_prefix_to_keys(tree)}
WrapRoot(h, tree) == Dict1("root", AddAtPrefixToKeys(Deref(h, tree)))

\* the loop of handle_item_xml_info; result is the dict cat_id -> cat_obj
\* built so far.  Returns [heap, result, exc].
RECURSIVE ItemLoop(_, _, _)
ItemLoop(h, rest, result) ==
    IF rest = <<>> THEN [heap |-> h, result |-> result, exc |-> "none"]
    ELSE
    LET obj == h[Head(rest).id]
        fail(hh, res) == [heap |-> hh, result |-> res, exc |-> "KeyError"]
    IN
    IF ~HasKey(obj, "catObj") THEN fail(h, result)
    ELSE
    LET c == Get(obj, "catObj").id IN
    IF ~HasKey(h[c], "ID") THEN fail(h, result)
    ELSE
    LET cat_id == Get(h[c], "ID")
        first == ~HasKey(result, cat_id)
        h1 == IF first THEN [h EXCEPT ![c] = DictSet(h[c], "item", List(<<>>))]
              ELSE h
        result1 == IF first THEN DictSet(result, cat_id, Ref(c)) ELSE result
    IN
    IF ~HasKey(obj, "itemObj") THEN fail(h1, result1)
    ELSE
    LET it == Get(obj, "itemObj").id
        h2 == [h1 EXCEPT ![it] = DictSet(h1[it], "CatID", cat_id)]
    IN
    IF ~HasKey(h2[c], "item") THEN fail(h2, result1)
    ELSE
    LET h3 == [h2 EXCEPT ![c] =
                  DictSet(h2[c], "item", List(Append(Get(h2[c], "item").l, Ref(it))))]
    IN  ItemLoop(h3, Tail(rest), result1)

\* "for obj in data" over a dict yields its keys, which are strings
IterYieldsKeys(h, d) == d.t = "ref" /\ h[d.id] # <<>>

HandleItemXmlInfo(h, d) ==
    LET r == ItemLoop(h, IF IsList(d) THEN d.l ELSE <<>>, <<>>)
    IN  IF IterYieldsKeys(h, d) THEN Raised(h, "TypeError")
        ELSE IF r.exc # "none" THEN Raised(r.heap, r.exc)
        ELSE Returned(r.heap,
                 WrapRoot(r.heap,
                     Dict1("items", List([i \in DOMAIN r.result |-> r.result[i][2]]))))

\* the list comprehension [_delete_class(obj) for obj in data]
RECURSIVE DeleteClassLoop(_, _)
DeleteClassLoop(h, rest) ==
    IF rest = <<>> THEN [heap |-> h, exc |-> "none"]
    ELSE LET id == Head(rest).id
         IN  IF ~HasKey(h[id], "__class__") THEN [heap |-> h, exc |-> "KeyError"]
             ELSE DeleteClassLoop([h EXCEPT ![id] = DictPop(h[id], "__class__")],
                                  Tail(rest))

HandleGoldProductXmlInfo(h, d) ==
    LET r == DeleteClassLoop(h, IF IsList(d) THEN d.l ELSE <<>>)
    IN  IF IterYieldsKeys(h, d) THEN Raised(h, "AttributeError")
        ELSE IF r.exc # "none" THEN Raised(r.heap, r.exc)
        ELSE Returned(r.heap,
                 WrapRoot(r.heap,
                     Dict1("item", List(IF IsList(d) THEN d.l ELSE <<>>))))

HandleSkillXmlInfo(h, d) == Returned(h, WrapRoot(h, Dict1("item", d)))

----------------------------------------------------------------------------
(* Calls of the handlers on one decoded list *)

MaxCalls == 2

InitHandlers ==
    /\ heap = InitHeap
    /\ hData \in DataLists
    /\ hPc = "ready"
    /\ hName = "none"
    /\ hRet = None
    /\ hPrev = None
    /\ hCalls = 0
    /\ OffAnnot
    /\ OffDownload
    /\ OffPlatform
    /\ OffFlash
    /\ OffMain

\* one call handler(data), res being what the handler does on the current heap
CallHandler(name, res) ==
    /\ hPc # "off"
    /\ hCalls < MaxCalls
    /\ heap' = res.heap
    /\ hRet' = res.ret
    /\ hPc' = IF res.exc = "none" THEN "returned" ELSE "raised"
    /\ hName' = name
    /\ hPrev' = Deref(heap, List(hData))
    /\ hCalls' = hCalls + 1
    /\ UNCHANGED <<hData, annotVars, flashVars, mainVars, downloadVars, platformVars>>

CallHandleItem == CallHandler("item", HandleItemXmlInfo(heap, List(hData)))

CallHandleGoldProduct ==
    CallHandler("gold", HandleGoldProductXmlInfo(heap, List(hData)))

CallHandleSkill == CallHandler("skill", HandleSkillXmlInfo(heap, List(hData)))

\* handle_skill_xml_info applied to the tree it has just returned
CallHandleSkillOnResult ==
    /\ hPc = "returned"
    /\ hName = "skill"
    /\ hCalls < MaxCalls
    /\ hRet' = HandleSkillXmlInfo(heap, hRet).ret
    /\ hPrev' = hRet
    /\ hName' = "skill_again"
    /\ hCalls' = hCalls + 1
    /\ UNCHANGED <<heap, hData, hPc, annotVars, flashVars, mainVars, downloadVars, platformVars>>

NextHandlers ==
    \/ CallHandleItem
    \/ CallHandleGoldProduct
    \/ CallHandleSkill
    \/ CallHandleSkillOnResult

SpecHandlers == InitHandlers /\ [][NextHandlers]_vars

----------------------------------------------------------------------------
(* C2, C7, C8, C9, C10: the record handlers *)

\* the value found at result["root"][key]
UnderRoot(ret, key) == Get(Get(ret.m, "root").m, key)

AllPairs == \A i \in DOMAIN hData : hData[i].id \in PairIds
AllFlat == \A i \in DOMAIN hData : hData[i].id \in FlatIds

\* the category ID and the item of the i-th input pair, as decoded
IdOfPair(i) == Get(InitHeap[Get(InitHeap[hData[i].id], "catObj").id], "ID")
ItemOfPair(i) == InitHeap[Get(InitHeap[hData[i].id], "itemObj").id]

RECURSIVE FirstSeen(_, _)
FirstSeen(ids, acc) ==
    IF ids = <<>> THEN acc
    ELSE FirstSeen(Tail(ids),
             IF \E k \in DOMAIN acc : acc[k] = Head(ids) THEN acc
             ELSE Append(acc, Head(ids)))

\* the positions of the input pairs whose category ID is x, in input order
PairsWithId(x) ==
    SelectSeq([i \in 1..Len(hData) |-> i], LAMBDA i : IdOfPair(i) = x)

GroupedByCategory ==
    LET groups == UnderRoot(hRet, "items").l
        ids == FirstSeen([i \in 1..Len(hData) |-> IdOfPair(i)], <<>>)
    IN  /\ Len(groups) = Len(ids)
        /\ \A g \in DOMAIN ids :
             /\ HasKey(groups[g].m, "@ID")
             /\ Get(groups[g].m, "@ID") = ids[g]
             /\ HasKey(groups[g].m, "item")
             /\ LET items == Get(groups[g].m, "item").l
                    idx == PairsWithId(ids[g])
                IN  /\ Len(items) = Len(idx)
                    /\ \A k \in DOMAIN idx :
                         KeyRule(Map(Append(ItemOfPair(idx[k]), <<"CatID", ids[g]>>)),
                                 items[k])

\* C2 as stated: for every list of (category, item) pairs, handle_item_xml_info
\* returns one group per distinct category ID, in first-seen order, each holding
\* exactly the items of the pairs with that ID, in input order, each carrying
\* CatID; also when two pairs with the same ID carry separate category objects.
C2_GroupsEveryPairList ==
    (hName = "item" /\ hCalls = 1 /\ AllPairs) =>
        (hPc = "returned" /\ GroupedByCategory)

\* C7 as stated: handle_skill_xml_info wraps the input list under a root key
\* with every element unchanged (same keys, same values, same order).
C7_ElementsUnchanged ==
    (hName = "skill" /\ hPc = "returned") => UnderRoot(hRet, "item") = hPrev

\* C7 amended: handle_skill_xml_info returns {"root": {"item": L}} where L has
\* the length and order of the input list and each element of L is the input
\* element annotated: list-valued keys unchanged, every other key with one "@"
\* prepended, values kept.
C7_ElementsAnnotated ==
    (hName = "skill" /\ hPc = "returned") =>
        /\ hRet = Dict1("root", Dict1("item", UnderRoot(hRet, "item")))
        /\ IsList(UnderRoot(hRet, "item"))
        /\ Len(UnderRoot(hRet, "item").l) = Len(hData)
        /\ \A i \in DOMAIN hData : KeyRule(hPrev.l[i], UnderRoot(hRet, "item").l[i])

\* handle_skill_xml_info([{"__class__": "GoldProduct", "a": "0"}, {"a": "1"}])
C7_Witness ==
    /\ hName = "skill"
    /\ hPc = "returned"
    /\ hData = <<Ref(11), Ref(12)>>
    /\ hRet = Dict1("root", Dict1("item", List(<<
                  Map(<< <<"@__class__", Scalar("GoldProduct")>>, <<"@a", Scalar("0")>> >>),
                  Map(<< <<"@a", Scalar("1")>> >>) >>)))

\* C8 as stated: handle_skill_xml_info applied to its own output yields the
\* same tree.
C8_Idempotent == hName = "skill_again" => hRet = hPrev

\* C8 amended: handle_skill_xml_info applied to its own output does not yield
\* the same tree: the previous output is nested under root/@item, its root key
\* becomes "@root" and every key below is annotated a second time.
C8_NestsAndPrefixesAgain ==
    hName = "skill_again" =>
        /\ hRet # hPrev
        /\ HasKey(hRet.m, "root")
        /\ KeyRule(Dict1("item", hPrev), Get(hRet.m, "root"))

\* handle_skill_xml_info(handle_skill_xml_info([{"a": "1"}]))
C8_Witness ==
    /\ hName = "skill_again"
    /\ hData = <<Ref(12)>>
    /\ hPrev = Dict1("root", Dict1("item", List(<< Map(<< <<"@a", Scalar("1")>> >>) >>)))
    /\ hRet = Dict1("root", Dict1("@item", Dict1("@root", Dict1("item",
                  List(<< Map(<< <<"@@a", Scalar("1")>> >>) >>)))))

\* a record without its __class__ field
StripClass(tree) == Map(SelectSeq(tree.m, LAMBDA kv : kv[1] # "__class__"))

\* C9 as stated: for every flat list of objects, handle_gold_product_xml_info
\* returns a list of the same length and order, each element being the input
\* element without __class__ and with every other field kept, also for an
\* element that does not carry __class__.
C9_StripsEveryElement ==
    (hName = "gold" /\ hCalls = 1 /\ AllFlat) =>
        /\ hPc = "returned"
        /\ Len(UnderRoot(hRet, "item").l) = Len(hData)
        /\ \A i \in DOMAIN hData :
             KeyRule(StripClass(hPrev.l[i]), UnderRoot(hRet, "item").l[i])

\* C10 as stated: a handler call leaves the input list and every object in it
\* unchanged.
C10_HandlersPure ==
    hName \in {"item", "gold", "skill"} => Deref(heap, List(hData)) = hPrev

----------------------------------------------------------------------------
(* Flash.get_configs: symbols, payloads and the per-segment pipeline *)

MaxSegs == 2

\* A symbol is kept as the sequence of the pieces the filename pattern tells
\* apart; the key of swf_configs is their concatenation.
SymItem == <<"com.robot.core.", "config.xml.ItemXMLInfo", "_", "xmlClass">>
SymGold == <<"com.robot.core.", "config.xml.GoldProductXMLInfo", "_", "xmlClass">>
SymSkill == <<"com.robot.core.", "config.xml.SkillXMLInfo", "_", "xmlClass">>
SymPet == <<"com.robot.core.", "config.xml.PetXMLInfo", "_", "xmlClass">>
SymPetCls == <<"config.xml.PetXMLInfo", "_", "xmlcls">>

Symbols == {SymItem, SymGold, SymSkill, SymPet, SymPetCls}

RECURSIVE Join(_)
Join(toks) == IF toks = <<>> THEN "" ELSE Head(toks) \o Join(Tail(toks))

\* r'(_?(xmlclass|xmlcls)|com.robot.core.)' with re.IGNORECASE, piece by piece
IsXmlClass(tok) == tok \in {"xmlClass", "xmlclass", "XMLCLASS", "xmlcls", "xmlCls", "XMLCLS"}
IsCorePrefix(tok) == tok \in {"com.robot.core.", "COM.ROBOT.CORE."}

\* re.sub(pattern, '', key): every match is removed, scanning left to right
RECURSIVE ReSub(_)
ReSub(toks) ==
    IF toks = <<>> THEN <<>>
    ELSE IF Head(toks) = "_" /\ Len(toks) > 1 /\ IsXmlClass(toks[2])
    THEN ReSub(Tail(Tail(toks)))
    ELSE IF IsXmlClass(Head(toks)) \/ IsCorePrefix(Head(toks))
    THEN ReSub(Tail(toks))
    ELSE <<Head(toks)>> \o ReSub(Tail(toks))

\* filename.strip('_')
RECURSIVE StripUnderscores(_)
StripUnderscores(toks) ==
    IF toks = <<>> THEN <<>>
    ELSE IF Head(toks) = "_" THEN StripUnderscores(Tail(toks))
    ELSE IF toks[Len(toks)] = "_" THEN StripUnderscores(SubSeq(toks, 1, Len(toks) - 1))
    ELSE toks

\* the name of the file a segment is written to, inside work_dir
FileName(key) == Join(StripUnderscores(ReSub(key))) \o ".xml"

\* AMF3_DATA_HANDLERS.get(key): the name of the handler, "none" when absent
HandlerFor(key) ==
    LET k == Join(key)
    IN  IF k = "com.robot.core.config.xml.ItemXMLInfo_xmlClass" THEN "item"
        ELSE IF k = "com.robot.core.config.xml.GoldProductXMLInfo_xmlClass" THEN "gold"
        ELSE IF k = "com.robot.core.config.xml.SkillXMLInfo_xmlClass" THEN "skill"
        ELSE "none"

\* Byte strings.  A compressed payload is 0x78 0xDA followed by one byte that
\* stands for the rest of the stream; what it inflates and decodes to is
\* looked up below.
Bytes(b) == [t |-> "bytes", b |-> b]

RawPayloads == {Bytes(<<>>), Bytes(<<120>>), Bytes(<<1, 2>>)}
StreamIds == 0..5
CompressedPayloads == {Bytes(<<120, 218, n>>) : n \in StreamIds}
Payloads == RawPayloads \cup CompressedPayloads

\* value[:2] == b'\x78\xda'
IsCompressed(value) == Len(value.b) >= 2 /\ value.b[1] = 120 /\ value.b[2] = 218

\* zlib.decompress(value): stream 0 is not a valid deflate stream
ZlibFails(value) == value.b[3] = 0

\* The decoder.  A reader keeps three reference tables (strings, traits,
\* objects); an inline value is appended to its table and a back-reference is
\* an index (from 0) into it.  A stream is the sequence of table operations
\* reading it performs.
NewAMF3Reader == [strings |-> <<>>, traits |-> <<>>, objects |-> <<>>]

Str(x) == [op |-> "str", s |-> x]
StrRef(i) == [op |-> "strref", i |-> i]
Traits(x) == [op |-> "traits", s |-> x]
TraitsRef(i) == [op |-> "traitsref", i |-> i]
Obj(x) == [op |-> "obj", s |-> x]
ObjRef(i) == [op |-> "objref", i |-> i]

\* stream 1 opens with back-references to entries it has not defined
StreamOps(value) ==
    CASE value.b[3] = 1 -> <<ObjRef(0), TraitsRef(0), StrRef(0)>>
      [] value.b[3] = 2 ->
            <<Obj("pair"), Traits("Pair"), Str("catObj"), Str("itemObj"),
              Obj("cat"), Traits("Cat"), Str("ID"), Str("1"),
              Obj("item"), Traits("Item"), Str("name"), Str("sword"),
              Obj("pair"), TraitsRef(0), ObjRef(1), Obj("item"), TraitsRef(2), Str("shield"),
              Obj("pair"), TraitsRef(0), Obj("cat"), TraitsRef(1), Str("2"),
              Obj("item"), TraitsRef(2), Str("potion")>>
      [] value.b[3] = 3 ->
            <<Obj("pair"), Traits("Pair"), Str("catObj"), Str("itemObj"),
              Obj("cat"), Traits("Cat"), Str("ID"), Str("1"),
              Obj("item"), Traits("Item"), Str("name"), Str("sword"),
              Obj("pair"), TraitsRef(0), Obj("cat"), TraitsRef(1), StrRef(3),
              Obj("item"), TraitsRef(2), Str("shield")>>
      [] OTHER -> <<Obj("gold"), Traits("GoldProduct"), Str("a"), Str("0")>>

InBounds(i, table) == i < Len(table)

\* read_object on a reader whose tables are t: the tables it leaves, and
\* MalformedObjectStream for a reference index out of bounds of its table
RECURSIVE ReadTables(_, _)
ReadTables(t, ops) ==
    IF ops = <<>> THEN [exc |-> "none", tables |-> t]
    ELSE LET o == Head(ops)
         IN  CASE o.op = "str" ->
                    ReadTables([t EXCEPT !.strings = Append(@, o.s)], Tail(ops))
               [] o.op = "traits" ->
                    ReadTables([t EXCEPT !.traits = Append(@, o.s)], Tail(ops))
               [] o.op = "obj" ->
                    ReadTables([t EXCEPT !.objects = Append(@, o.s)], Tail(ops))
               [] o.op = "strref" ->
                    IF InBounds(o.i, t.strings) THEN ReadTables(t, Tail(ops))
                    ELSE [exc |-> "MalformedObjectStream", tables |-> t]
               [] o.op = "traitsref" ->
                    IF InBounds(o.i, t.traits) THEN ReadTables(t, Tail(ops))
                    ELSE [exc |-> "MalformedObjectStream", tables |-> t]
               [] OTHER ->
                    IF InBounds(o.i, t.objects) THEN ReadTables(t, Tail(ops))
                    ELSE [exc |-> "MalformedObjectStream", tables |-> t]

\* the reader the loop had before this pass (a new one before the first)
PrevReader == IF fReaders = <<>> THEN NewAMF3Reader ELSE fReaders[Len(fReaders)].end

\* one reader kept for the whole loop
ReaderReused(prev) == prev

\* AMF3Reader(value): each pass of the loop constructs its own reader
ReaderFor(prev) == NewAMF3Reader

\* AMF3Reader(value).read_object() raises; on a new reader that is stream 1.
\* The others decode to a value over freshly built objects (InitHeap).
ReadObjectFails(value) ==
    ReadTables(ReaderFor(PrevReader), StreamOps(value)).exc # "none"

ReadObject(value) ==
    CASE value.b[3] = 2 -> List(<<Ref(7), Ref(8), Ref(10)>>)
      [] value.b[3] = 3 -> List(<<Ref(7), Ref(9)>>)
      [] value.b[3] = 4 -> List(<<Ref(11)>>)
      [] OTHER -> Ref(11)

\* handler(value)
ApplyHandler(name, h, value) ==
    CASE name = "item" -> HandleItemXmlInfo(h, value)
      [] name = "gold" -> HandleGoldProductXmlInfo(h, value)
      [] OTHER -> HandleSkillXmlInfo(h, value)

\* dict_to_xml: xmltodict.unparse walks data.items(), so only a dict is taken
DictToXmlFails(tree) == ~IsMap(tree)
DictToXml(tree) == [t |-> "xml", doc |-> tree]

\* value.encode("utf-8")
Encode(text) == [t |-> "utf8", text |-> text]

SegRecord(seg, stage, exc, decoded, toXml, out) ==
    [key |-> seg.key, compressed |-> IsCompressed(seg.value),
     handler |-> HandlerFor(seg.key), stage |-> stage, exc |-> exc,
     decoded |-> decoded, toXml |-> toXml, out |-> out]

UnregisteredAlsoWrapped(name, decoded) ==
    IF name = "none" THEN WrapRoot(InitHeap, Dict1("item", decoded))
    ELSE IF ApplyHandler(name, InitHeap, decoded).exc = "none"
    THEN ApplyHandler(name, InitHeap, decoded).ret
    ELSE None

\* the value handed to dict_to_xml for a decoded value: the handler's result
\* when one is registered (None when it raised), the decoded value otherwise
Normalized(name, decoded) ==
    IF name = "none" THEN Deref(InitHeap, decoded)
    ELSE IF ApplyHandler(name, InitHeap, decoded).exc = "none"
    THEN ApplyHandler(name, InitHeap, decoded).ret
    ELSE None

\* a loop body that encodes every segment's bytes before writing them
ProcessSegmentEncodesRaw(seg) ==
    SegRecord(seg, "write", "none", None, None, Encode(seg.value))

\* one pass of the loop body up to, not including, write_bytes
ProcessSegment(seg) ==
    IF ~IsCompressed(seg.value)
    THEN SegRecord(seg, "write", "none", None, None, seg.value)
    ELSE IF ZlibFails(seg.value)
    THEN SegRecord(seg, "decompress", "zlib.error", None, None, None)
    ELSE IF ReadObjectFails(seg.value)
    THEN SegRecord(seg, "decode", "MalformedObjectStream", None, None, None)
    ELSE
    LET decoded == ReadObject(seg.value)
        name == HandlerFor(seg.key)
        tree == Normalized(name, decoded)
    IN  IF tree = None
        THEN SegRecord(seg, "handler", ApplyHandler(name, InitHeap, decoded).exc,
                       Deref(InitHeap, decoded), None, None)
        ELSE IF DictToXmlFails(tree)
        THEN SegRecord(seg, "serialize", "AttributeError",
                       Deref(InitHeap, decoded), tree, None)
        ELSE SegRecord(seg, "write", "none", Deref(InitHeap, decoded), tree,
                       Encode(DictToXml(tree)))

----------------------------------------------------------------------------
(* Flash.get_configs as a process *)

Segments == [key : Symbols, value : Payloads]

\* swf_configs is a dict: its keys are distinct
SegLists ==
    {s \in SeqsUpTo(Segments, MaxSegs) :
        \A i, j \in DOMAIN s : i # j => s[i].key # s[j].key}

Swfs ==
    {[http |-> "error", zlib |-> "ok", segs |-> <<>>],
     [http |-> "ok", zlib |-> "corrupt", segs |-> <<>>]}
    \cup {[http |-> "ok", zlib |-> "ok", segs |-> s] : s \in SegLists}

\* a write that leaves an existing file alone
WriteFileKeepFirst(fs, name, content) ==
    [n \in DOMAIN fs \cup {name} |-> IF n \in DOMAIN fs THEN fs[n] ELSE content]

\* Path(...).write_bytes(value)
WriteFile(fs, name, content) ==
    [n \in DOMAIN fs \cup {name} |-> IF n = name THEN content ELSE fs[n]]

\* httpx.get(...); response.raise_for_status()
FlashDownload ==
    /\ fPc = "download"
    /\ IF swf.http = "error"
       THEN fPc' = "raised" /\ fExc' = "HTTPStatusError"
       ELSE fPc' = "extract" /\ fExc' = fExc
    /\ UNCHANGED <<swf, fIdx, fDone, fReaders, files, annotVars, handlerVars, downloadVars, platformVars, mainVars>>

\* swf_configs = self.extract_configs_from_swf(swf)
FlashExtract ==
    /\ fPc = "extract"
    /\ IF swf.zlib = "corrupt"
       THEN fPc' = "raised" /\ fExc' = "zlib.error" /\ fIdx' = fIdx
       ELSE fPc' = "loop" /\ fExc' = fExc /\ fIdx' = 1
    /\ UNCHANGED <<swf, fDone, fReaders, files, annotVars, handlerVars, downloadVars, platformVars, mainVars>>

\* the end of one pass of the loop body: an exception leaves get_configs,
\* otherwise the file is written and the loop goes on
SegmentOutcome(r) ==
    IF r.exc # "none"
    THEN /\ fPc' = "raised"
         /\ fExc' = r.exc
         /\ UNCHANGED <<fIdx, files>>
    ELSE /\ fPc' = "loop"
         /\ fExc' = fExc
         /\ fIdx' = fIdx + 1
         /\ files' = WriteFile(files, FileName(r.key), r.out)

\* one pass of "for key, value in swf_configs.items()"
FlashSegment ==
    /\ fPc = "loop"
    /\ fIdx <= Len(swf.segs)
    /\ fDone' = Append(fDone, ProcessSegment(swf.segs[fIdx]))
    /\ fReaders' =
          IF IsCompressed(swf.segs[fIdx].value) /\ ~ZlibFails(swf.segs[fIdx].value)
          THEN Append(fReaders,
                      [seg |-> fIdx, start |-> ReaderFor(PrevReader),
                       end |-> ReadTables(ReaderFor(PrevReader),
                                          StreamOps(swf.segs[fIdx].value)).tables])
          ELSE fReaders
    /\ SegmentOutcome(ProcessSegment(swf.segs[fIdx]))
    /\ UNCHANGED <<swf, annotVars, handlerVars, downloadVars, platformVars, mainVars>>

\* the loop is exhausted: get_configs returns
FlashReturn ==
    /\ fPc = "loop"
    /\ fIdx > Len(swf.segs)
    /\ fPc' = "done"
    /\ UNCHANGED <<swf, fIdx, fExc, fDone, fReaders, files, annotVars, handlerVars, downloadVars, platformVars, mainVars>>

InitFlash ==
    /\ swf \in Swfs
    /\ fPc = "download"
    /\ fIdx = 0
    /\ fExc = "none"
    /\ fDone = <<>>
    /\ fReaders = <<>>
    /\ files = <<>>
    /\ OffAnnot
    /\ OffDownload
    /\ OffPlatform
    /\ OffHandlers
    /\ OffMain

NextFlash ==
    \/ FlashDownload
    \/ FlashExtract
    \/ FlashSegment
    \/ FlashReturn

SpecFlash == InitFlash /\ [][NextFlash]_vars

----------------------------------------------------------------------------
(* C3, C5, C6: the segment loop of Flash.get_configs *)

LoopEntered == swf.http = "ok" /\ swf.zlib = "ok"

\* C3 as stated: a failure while processing one segment is isolated to that
\* segment; every other segment of the container, before and after it, is
\* processed and its file is written.
C3_SegmentFailureIsolated ==
    (fPc \in {"done", "raised"} /\ LoopEntered) =>
        \A i \in DOMAIN swf.segs :
            ProcessSegment(swf.segs[i]).exc = "none" =>
                FileName(swf.segs[i].key) \in DOMAIN files

\* the segment the loop has taken up last
LastDone == fDone[Len(fDone)]

\* a compressed segment that decoded and has no registered handler
Unregistered(r) == r.compressed /\ r.handler = "none" /\ r.decoded # None

PlainKeys == {"ID", "name", "catObj", "itemObj", "__class__", "a",
              "item", "items", "CatID"}

\* a tree the annotator has been applied to exactly once: list-valued keys
\* are bare, every other key is one "@" and a plain key
RECURSIVE AnnotatedOnce(_)
AnnotatedOnce(tree) ==
    IF IsMap(tree)
    THEN \A i \in DOMAIN tree.m :
            /\ IF IsList(tree.m[i][2]) THEN tree.m[i][1] \in PlainKeys
               ELSE tree.m[i][1] \in {"@" \o k : k \in PlainKeys}
            /\ AnnotatedOnce(tree.m[i][2])
    ELSE IF IsList(tree) THEN \A i \in DOMAIN tree.l : AnnotatedOnce(tree.l[i])
    ELSE TRUE

\* a tree the annotator has not been applied to: every key is plain
RECURSIVE NeverAnnotated(_)
NeverAnnotated(tree) ==
    IF IsMap(tree)
    THEN \A i \in DOMAIN tree.m :
            tree.m[i][1] \in PlainKeys /\ NeverAnnotated(tree.m[i][2])
    ELSE IF IsList(tree) THEN \A i \in DOMAIN tree.l : NeverAnnotated(tree.l[i])
    ELSE TRUE

----------------------------------------------------------------------------
(* Platform versions and main *)

MaxPublishes == 1

\* platforms, in the order of main's list
Platforms == 1..3
PlatformName(p) == CASE p = 1 -> "flash" [] p = 2 -> "html5" [] OTHER -> "unity"

\* version texts, kept as sequences of characters
Versions == {<<"1">>, <<"1", "\n">>, <<"2">>}

IsSpace(c) == c \in {" ", "\n", "\t", "\r"}

\* str.strip()
RECURSIVE Strip(_)
Strip(s) ==
    IF s = <<>> THEN <<>>
    ELSE IF IsSpace(Head(s)) THEN Strip(Tail(s))
    ELSE IF IsSpace(s[Len(s)]) THEN Strip(SubSeq(s, 1, Len(s) - 1))
    ELSE s

NoFile == [exists |-> FALSE]
FileWith(text) == [exists |-> TRUE, text |-> text]

\* get_local_version: the stripped text of .version (only when it exists)
GetLocalVersion(file) == Strip(file.text)

\* check_update, given .version and what get_remote_version returns
CheckUpdate(file, remoteNow) ==
    IF ~file.exists THEN TRUE ELSE GetLocalVersion(file) # remoteNow

\* the containers main is run against
MainSwfs ==
    {[http |-> "error", zlib |-> "ok", segs |-> <<>>],
     [http |-> "ok", zlib |-> "corrupt", segs |-> <<>>],
     [http |-> "ok", zlib |-> "ok", segs |-> <<>>],
     [http |-> "ok", zlib |-> "ok", segs |->
         <<[key |-> SymSkill, value |-> Bytes(<<120, 218, 4>>)]>>],
     [http |-> "ok", zlib |-> "ok", segs |->
         <<[key |-> SymPet, value |-> Bytes(<<1, 2>>)],
           [key |-> SymItem, value |-> Bytes(<<120, 218, 1>>)]>>],
     [http |-> "ok", zlib |-> "ok", segs |->
         <<[key |-> SymItem, value |-> Bytes(<<120, 218, 0>>)],
           [key |-> SymPet, value |-> Bytes(<<1, 2>>)]>>]}

InitMain ==
    /\ mPc = "read"
    /\ mIdx = 1
    /\ remote \in [Platforms -> {<<"1">>, <<"1", "\n">>}]
    /\ versionFile \in [Platforms -> {NoFile, FileWith(<<"1">>)}]
    /\ versionFile0 = versionFile
    /\ mRemoteVersion = <<>>
    /\ mChecked = <<>>
    /\ commits = <<>>
    /\ pushed = 0
    /\ published = 0
    /\ swf \in MainSwfs
    /\ fPc = "off"
    /\ fIdx = 0
    /\ fExc = "none"
    /\ fDone = <<>>
    /\ fReaders = <<>>
    /\ files = <<>>
    /\ OffAnnot
    /\ OffDownload
    /\ OffPlatform
    /\ OffHandlers

Running == mPc \in {"read", "check", "get_configs", "save", "commit"}

\* the server of the platform being handled publishes another version
Publish ==
    /\ Running
    /\ mIdx \in Platforms
    /\ published < MaxPublishes
    /\ \E v \in Versions \ {remote[mIdx]} : remote' = [remote EXCEPT ![mIdx] = v]
    /\ published' = published + 1
    /\ UNCHANGED <<mPc, mIdx, versionFile, versionFile0, mRemoteVersion, mChecked,
                   commits, pushed, annotVars, handlerVars, downloadVars, platformVars, flashVars>>

\* remote_version = platform.get_remote_version()
MainReadRemote ==
    /\ mPc = "read"
    /\ mIdx \in Platforms
    /\ mRemoteVersion' = remote[mIdx]
    /\ mPc' = "check"
    /\ UNCHANGED <<mIdx, remote, versionFile, versionFile0, mChecked, commits,
                   pushed, published, annotVars, handlerVars, downloadVars, platformVars, flashVars>>

\* a get_remote_version call raises (httpx error, raise_for_status): in main,
\* in check_update when .version exists, or in save_remote_version
RemoteReadFails ==
    /\ mIdx \in Platforms
    /\ \/ mPc \in {"read", "save"}
       \/ mPc = "check" /\ versionFile[mIdx].exists
    /\ mPc' = "raised"
    /\ UNCHANGED <<mIdx, remote, versionFile, versionFile0, mRemoteVersion, mChecked,
                   commits, pushed, published, annotVars, handlerVars, downloadVars, platformVars, flashVars>>

\* if not platform.check_update(): continue
MainCheckUpdate ==
    /\ mPc = "check"
    /\ mChecked' = IF versionFile[mIdx].exists THEN remote[mIdx] ELSE <<>>
    /\ IF CheckUpdate(versionFile[mIdx], remote[mIdx])
       THEN /\ mPc' = "get_configs"
            /\ mIdx' = mIdx
            /\ fPc' = IF mIdx = 1 THEN "download" ELSE fPc
       ELSE /\ mPc' = "read"
            /\ mIdx' = mIdx + 1
            /\ fPc' = fPc
    /\ UNCHANGED <<remote, versionFile, versionFile0, mRemoteVersion, commits, pushed,
                   published, annotVars, handlerVars, downloadVars, platformVars, swf, fIdx, fExc, fDone, fReaders,
                   files>>

\* Flash.get_configs has returned
MainFlashReturned ==
    /\ mPc = "get_configs"
    /\ mIdx = 1
    /\ fPc = "done"
    /\ mPc' = "save"
    /\ UNCHANGED <<mIdx, remote, versionFile, versionFile0, mRemoteVersion, mChecked,
                   commits, pushed, published, annotVars, handlerVars, downloadVars, platformVars, flashVars>>

\* Flash.get_configs has raised: the exception leaves main
MainFlashRaised ==
    /\ mPc = "get_configs"
    /\ mIdx = 1
    /\ fPc = "raised"
    /\ mPc' = "raised"
    /\ UNCHANGED <<mIdx, remote, versionFile, versionFile0, mRemoteVersion, mChecked,
                   commits, pushed, published, annotVars, handlerVars, downloadVars, platformVars, flashVars>>

\* HTML5.get_configs / Unity.get_configs return
MainOtherReturned ==
    /\ mPc = "get_configs"
    /\ mIdx \in {2, 3}
    /\ mPc' = "save"
    /\ UNCHANGED <<mIdx, remote, versionFile, versionFile0, mRemoteVersion, mChecked,
                   commits, pushed, published, annotVars, handlerVars, downloadVars, platformVars, flashVars>>

\* HTML5.get_configs / Unity.get_configs raise
MainOtherRaised ==
    /\ mPc = "get_configs"
    /\ mIdx \in {2, 3}
    /\ mPc' = "raised"
    /\ UNCHANGED <<mIdx, remote, versionFile, versionFile0, mRemoteVersion, mChecked,
                   commits, pushed, published, annotVars, handlerVars, downloadVars, platformVars, flashVars>>

\* platform.save_remote_version(), reached once get_configs has returned
SaveRemoteVersion ==
    /\ mPc = "save"
    /\ versionFile' = [versionFile EXCEPT ![mIdx] = FileWith(remote[mIdx])]
    /\ mPc' = "commit"

MainSave ==
    /\ SaveRemoteVersion
    /\ UNCHANGED <<mIdx, remote, versionFile0, mRemoteVersion, mChecked,
                   commits, pushed, published, annotVars, handlerVars, downloadVars, platformVars, flashVars>>

\* repo.index.add([platform.work_dir]); repo.index.commit(...)
MainCommit ==
    /\ mPc = "commit"
    /\ commits' = Append(commits, [name |-> PlatformName(mIdx),
                                   version |-> mRemoteVersion])
    /\ mIdx' = mIdx + 1
    /\ mPc' = "read"
    /\ UNCHANGED <<remote, versionFile, versionFile0, mRemoteVersion, mChecked,
                   pushed, published, annotVars, handlerVars, downloadVars, platformVars, flashVars>>

\* an end of main that pushes without looking at HEAD
MainEndAlwaysPushes ==
    /\ mPc = "read"
    /\ mIdx = 4
    /\ pushed' = pushed + 1
    /\ mPc' = "done"
    /\ UNCHANGED <<mIdx, remote, versionFile, versionFile0, mRemoteVersion, mChecked,
                   commits, published, annotVars, handlerVars, downloadVars, platformVars,
                   flashVars>>

\* after the loop: push unless HEAD is still initial_head
MainEnd ==
    /\ mPc = "read"
    /\ mIdx = 4
    /\ pushed' = IF commits = <<>> THEN pushed ELSE pushed + 1
    /\ mPc' = "done"
    /\ UNCHANGED <<mIdx, remote, versionFile, versionFile0, mRemoteVersion, mChecked,
                   commits, published, annotVars, handlerVars, downloadVars, platformVars, flashVars>>

NextMain ==
    \/ Publish
    \/ MainReadRemote
    \/ RemoteReadFails
    \/ MainCheckUpdate
    \/ FlashDownload
    \/ FlashExtract
    \/ FlashSegment
    \/ FlashReturn
    \/ MainFlashReturned
    \/ MainFlashRaised
    \/ MainOtherReturned
    \/ MainOtherRaised
    \/ MainSave
    \/ MainCommit
    \/ MainEnd

SpecMain == InitMain /\ [][NextMain]_vars

----------------------------------------------------------------------------
(* C4 *)

FlashFailed == mPc = "raised" /\ mIdx = 1 /\ fPc = "raised"

NoFlashCommit == \A i \in DOMAIN commits : commits[i].name # "flash"

\* C4 as stated: when Flash.get_configs fails, no output file of the container
\* is written, .version keeps its previous content (or stays absent) and no
\* commit is created for the platform.
C4_FailedGetConfigsLeavesNothing ==
    FlashFailed =>
        /\ files = <<>>
        /\ versionFile[1] = versionFile0[1]
        /\ NoFlashCommit

----------------------------------------------------------------------------
(* C11, C12: what the segment loop leaves on disk *)

\* the bytes of the segment the loop has taken up last, as extracted
LastValue == swf.segs[Len(fDone)].value

\* the signature test restated on the bytes: 0x78 0xDA in front
StartsWithSignature(b) == Len(b) >= 2 /\ SubSeq(b, 1, 2) = <<120, 218>>

\* C11: a segment whose bytes do not start with 0x78 0xDA is not decoded (no
\* inflate, no decoder, no handler, no serialization) and, right after the
\* loop body has run for it, its output file holds exactly the segment's bytes.
C11_RawWrittenByteForByte ==
    (fDone # <<>> /\ ~StartsWithSignature(LastValue.b)) =>
        /\ LastDone.exc = "none"
        /\ LastDone.decoded = None
        /\ LastDone.toXml = None
        /\ FileName(LastDone.key) \in DOMAIN files
        /\ files[FileName(LastDone.key)] = LastValue

\* the one-byte segment 0x78 written over the XML an earlier segment left
\* under the same filename
C11_Witness ==
    /\ Len(fDone) = 2
    /\ fDone[1].compressed /\ fDone[1].exc = "none"
    /\ FileName(fDone[1].key) = FileName(fDone[2].key)
    /\ LastValue = Bytes(<<120>>)
    /\ files[FileName(LastDone.key)] = Bytes(<<120>>)

\* the segments whose file has been written so far
Written == {i \in DOMAIN fDone : fDone[i].exc = "none"}

\* the last written segment that maps to the filename
IsLastWriter(i) ==
    /\ i \in Written
    /\ \A j \in Written : j > i => FileName(fDone[j].key) # FileName(fDone[i].key)

\* C12: output is keyed by filename with last-write-wins: the files are the
\* filenames of the segments written so far, and each holds the whole output
\* of the last segment in iteration order that maps to it, whatever earlier
\* segments wrote there.
C12_LastWriteWins ==
    /\ DOMAIN files = {FileName(fDone[i].key) : i \in Written}
    /\ \A i \in DOMAIN fDone :
          IsLastWriter(i) =>
              files[FileName(fDone[i].key)] = ProcessSegment(swf.segs[i]).out

\* two symbols with one filename and different outputs: the second one's stays
C12_Witness ==
    /\ fPc = "done"
    /\ Len(fDone) = 2
    /\ fDone[1].key # fDone[2].key
    /\ FileName(fDone[1].key) = FileName(fDone[2].key)
    /\ fDone[1].out # fDone[2].out
    /\ DOMAIN files = {"config.xml.PetXMLInfo.xml"}
    /\ files["config.xml.PetXMLInfo.xml"] = fDone[2].out

----------------------------------------------------------------------------
(* C13: the decoder's reference tables *)

\* what reading the segment's stream alone, on empty tables, gives
ReadAlone(i) == ReadTables(NewAMF3Reader, StreamOps(swf.segs[i].value))

\* C13: every compressed segment is decoded by a reader whose three tables
\* start empty, so nothing registered while decoding another segment is
\* visible: the segment's decode fails or succeeds, and leaves the tables,
\* exactly as when its stream is read alone.
C13_ReaderStatePerSegment ==
    \A k \in DOMAIN fReaders :
        LET i == fReaders[k].seg
        IN  /\ fReaders[k].start.strings = <<>>
            /\ fReaders[k].start.traits = <<>>
            /\ fReaders[k].start.objects = <<>>
            /\ fReaders[k].end = ReadAlone(i).tables
            /\ (fDone[i].exc = "MalformedObjectStream") <=> (ReadAlone(i).exc # "none")

\* a segment that registered strings, traits and objects was decoded, and the
\* next segment's back-references to entry 0 of each table were out of bounds
C13_Witness ==
    /\ Len(fReaders) = 2
    /\ fDone[1].exc = "none"
    /\ Len(fReaders[1].end.strings) > 0
    /\ Len(fReaders[1].end.traits) > 0
    /\ Len(fReaders[1].end.objects) > 0
    /\ StreamOps(swf.segs[2].value)[1] = ObjRef(0)
    /\ fDone[2].exc = "MalformedObjectStream"
    /\ fPc = "raised"

----------------------------------------------------------------------------
(* download_data_async *)

MaxTasks == 2
MaxConcurrency == 2
MaxRetries == 2

\* backoff_seconds = 0.5, kept in milliseconds
InitialBackoffMs == 500

FileNames == {"a.json", "b.json"}

\* what a request is answered with: a response that passes raise_for_status,
\* a response it raises HTTPStatusError for, a transport failure
Outcomes == {"ok", "status", "transport"}

NonePerTask(tasks) == [i \in DOMAIN tasks |-> <<>>]

\* the content a request of task i brings
Body(i) == [t |-> "body", task |-> i]
Old(name) == [t |-> "old", name |-> name]

InitDownload ==
    /\ dPc = "enter"
    /\ dTasks \in SeqsUpTo(FileNames, MaxTasks)
    /\ dMaxConcurrency \in 0..MaxConcurrency
    /\ dMaxRetries \in 0..MaxRetries
    /\ dSem = dMaxConcurrency
    /\ dInFlight = 0
    /\ dIdx = 1
    /\ dAttempt = 0
    /\ dBackoff = 0
    /\ dResponses = NonePerTask(dTasks)
    /\ dSleeps = NonePerTask(dTasks)
    /\ \E present \in SUBSET FileNames : dFiles = [n \in present |-> Old(n)]
    /\ dFiles0 = dFiles
    /\ dWrites = <<>>
    /\ dPrinted = FALSE
    /\ dExc = "none"
    /\ OffAnnot
    /\ OffHandlers
    /\ OffFlash
    /\ OffMain
    /\ OffPlatform

\* a semaphore that is entered without being taken
AcquireNothing(value) == value

\* Semaphore.acquire / release
Acquire(value) == value - 1
Release(value) == value + 1

\* async with asyncio.Semaphore(max_concurrency), httpx.AsyncClient(...):
\* acquire waits while the value is 0
DlEnter ==
    /\ dPc = "enter"
    /\ dSem > 0
    /\ dSem' = Acquire(dSem)
    /\ dPc' = "loop"
    /\ UNCHANGED <<dTasks, dMaxConcurrency, dMaxRetries, dInFlight, dIdx, dAttempt,
                   dBackoff, dResponses, dSleeps, dFiles, dFiles0, dWrites, dPrinted,
                   dExc, annotVars, handlerVars, flashVars, mainVars, platformVars>>

\* for url, filename in tasks: attempt = 0; backoff_seconds = 0.5
DlNextTask ==
    /\ dPc = "loop"
    /\ dIdx <= Len(dTasks)
    /\ dAttempt' = 0
    /\ dBackoff' = InitialBackoffMs
    /\ dPc' = "request"
    /\ UNCHANGED <<dTasks, dMaxConcurrency, dMaxRetries, dSem, dInFlight, dIdx,
                   dResponses, dSleeps, dFiles, dFiles0, dWrites, dPrinted, dExc,
                   annotVars, handlerVars, flashVars, mainVars, platformVars>>

\* response = await client.get(url): the request is sent
DlRequest ==
    /\ dPc = "request"
    /\ dInFlight' = dInFlight + 1
    /\ dPc' = "await"
    /\ UNCHANGED <<dTasks, dMaxConcurrency, dMaxRetries, dSem, dIdx, dAttempt, dBackoff,
                   dResponses, dSleeps, dFiles, dFiles0, dWrites, dPrinted, dExc,
                   annotVars, handlerVars, flashVars, mainVars, platformVars>>

\* an except list that takes HTTPError first: status errors land there too
CaughtByFirstHTTPError(outcome) ==
    IF outcome = "ok" THEN "none" ELSE "HTTPError"

\* the except clause that takes what the try block raised: HTTPStatusError is
\* listed before its base class HTTPError
CaughtBy(outcome) ==
    CASE outcome = "ok" -> "none"
      [] outcome = "status" -> "HTTPStatusError"
      [] OTHER -> "HTTPError"

\* a retry test that allows one attempt more
RetriesExhaustedLate(attempt, maxRetries) == attempt > maxRetries + 1

\* if attempt > max_retries: raise e
RetriesExhausted(attempt, maxRetries) == attempt > maxRetries

\* backoff_seconds *= 2
NextBackoff(backoff) == backoff * 2

\* the request is answered: the rest of the try block, or the except clause
DlResponse(outcome) ==
    /\ dPc = "await"
    /\ dInFlight' = dInFlight - 1
    /\ dResponses' = [dResponses EXCEPT ![dIdx] = Append(@, outcome)]
    /\ CASE CaughtBy(outcome) = "none" ->
              \* file_path.write_bytes(response.content); break
              /\ dFiles' = WriteFile(dFiles, dTasks[dIdx], Body(dIdx))
              /\ dWrites' = Append(dWrites, dIdx)
              /\ dIdx' = dIdx + 1
              /\ dPc' = "loop"
              /\ UNCHANGED <<dAttempt, dSleeps, dSem, dExc>>
         [] CaughtBy(outcome) = "HTTPStatusError" ->
              \* print(...); break
              /\ dIdx' = dIdx + 1
              /\ dPc' = "loop"
              /\ UNCHANGED <<dFiles, dWrites, dAttempt, dSleeps, dSem, dExc>>
         [] OTHER ->
              /\ dAttempt' = dAttempt + 1
              /\ IF RetriesExhausted(dAttempt + 1, dMaxRetries)
                 THEN \* raise e: the exception leaves the async with block
                      /\ dSem' = Release(dSem)
                      /\ dExc' = "HTTPError"
                      /\ dPc' = "raised"
                      /\ UNCHANGED dSleeps
                 ELSE \* await asyncio.sleep(backoff_seconds)
                      /\ dSleeps' = [dSleeps EXCEPT ![dIdx] = Append(@, dBackoff)]
                      /\ dPc' = "sleep"
                      /\ UNCHANGED <<dSem, dExc>>
              /\ UNCHANGED <<dFiles, dWrites, dIdx>>
    /\ UNCHANGED <<dTasks, dMaxConcurrency, dMaxRetries, dBackoff, dFiles0, dPrinted,
                   annotVars, handlerVars, flashVars, mainVars, platformVars>>

DlResponseOk == DlResponse("ok")
DlStatusError == DlResponse("status")
DlTransportError == DlResponse("transport")

\* the sleep is over: backoff_seconds *= 2, and the while loop goes round
DlWake ==
    /\ dPc = "sleep"
    /\ dBackoff' = NextBackoff(dBackoff)
    /\ dPc' = "request"
    /\ UNCHANGED <<dTasks, dMaxConcurrency, dMaxRetries, dSem, dInFlight, dIdx, dAttempt,
                   dResponses, dSleeps, dFiles, dFiles0, dWrites, dPrinted, dExc,
                   annotVars, handlerVars, flashVars, mainVars, platformVars>>

\* the for loop is exhausted: the async with block is left and the
\* completion message is printed
DlFinish ==
    /\ dPc = "loop"
    /\ dIdx > Len(dTasks)
    /\ dSem' = Release(dSem)
    /\ dPrinted' = TRUE
    /\ dPc' = "done"
    /\ UNCHANGED <<dTasks, dMaxConcurrency, dMaxRetries, dInFlight, dIdx, dAttempt,
                   dBackoff, dResponses, dSleeps, dFiles, dFiles0, dWrites, dExc,
                   annotVars, handlerVars, flashVars, mainVars, platformVars>>

NextDownload ==
    \/ DlEnter
    \/ DlNextTask
    \/ DlRequest
    \/ DlResponseOk
    \/ DlStatusError
    \/ DlTransportError
    \/ DlWake
    \/ DlFinish

SpecDownload == InitDownload /\ [][NextDownload]_vars

\* the event loop resumes the coroutine whenever what it awaits is ready, and
\* every request is answered or times out
SpecDownloadFair == SpecDownload /\ WF_vars(NextDownload)

----------------------------------------------------------------------------
(* C14: the concurrency limit *)

\* C14: at any moment the number of requests in flight is at most
\* max_concurrency, and while a request is in flight the semaphore is held
\* (its value is below max_concurrency).
C14_BoundedConcurrency ==
    /\ dInFlight <= dMaxConcurrency
    /\ dInFlight > 0 => dSem < dMaxConcurrency

\* a request in flight with the only permit taken
C14_Witness ==
    /\ dPc = "await"
    /\ dInFlight = 1
    /\ dMaxConcurrency = 1
    /\ dSem = 0

----------------------------------------------------------------------------
(* C15: the retry loop *)

\* the number of requests issued for task i so far
RequestsOf(i) ==
    Len(dResponses[i]) + (IF dPc = "await" /\ dIdx = i THEN 1 ELSE 0)

RECURSIVE Pow2(_)
Pow2(n) == IF n = 0 THEN 1 ELSE 2 * Pow2(n - 1)

\* 0.5 s, 1 s, 2 s, ...: sleep k of a task lasts 0.5 s times 2^(k-1)
BackoffDoubles(i) ==
    \A k \in DOMAIN dSleeps[i] : dSleeps[i][k] = 500 * Pow2(k - 1)

AllTransport(i) == \A k \in DOMAIN dResponses[i] : dResponses[i][k] = "transport"

\* the state part of C15
RetryBounded ==
    /\ \A i \in DOMAIN dTasks :
          /\ RequestsOf(i) <= dMaxRetries + 1
          /\ BackoffDoubles(i)
          \* every transport error but an exhausting one is followed by a sleep
          /\ dPc # "raised" /\ AllTransport(i) => Len(dSleeps[i]) = Len(dResponses[i])
    /\ dPc = "raised" =>
          /\ dExc = "HTTPError"
          /\ Len(dResponses[dIdx]) = dMaxRetries + 1
          /\ AllTransport(dIdx)
          /\ Len(dSleeps[dIdx]) = dMaxRetries
          /\ \A j \in DOMAIN dTasks : j > dIdx => dResponses[j] = <<>>
          /\ ~dPrinted

InRetryLoop == dPc \in {"request", "await", "sleep"}

\* C15: every task's retry loop terminates, having issued at most
\* max_retries + 1 requests; each transport error is followed by a sleep of
\* 0.5 s, 1 s, ... (doubling), and when request max_retries + 1 fails too the
\* error is raised, no later task is attempted and the completion message is
\* not printed.
C15_RetryLoopTerminates ==
    /\ []RetryBounded
    /\ InRetryLoop ~> ~InRetryLoop

\* max_retries = 2: the first of two tasks failed three times, after sleeps
\* of 0.5 s and 1 s, and the second task was never requested
C15_Witness ==
    /\ dPc = "raised"
    /\ dMaxRetries = 2
    /\ Len(dTasks) = 2
    /\ dIdx = 1
    /\ dResponses = << <<"transport", "transport", "transport">>, <<>> >>
    /\ dSleeps[1] = <<500, 1000>>
    /\ ~dPrinted

----------------------------------------------------------------------------
(* C16: HTTP status errors *)

\* task i has had a request answered with a status error
StatusErrorOn(i) == \E k \in DOMAIN dResponses[i] : dResponses[i][k] = "status"

WrittenBy(i) == \E k \in DOMAIN dWrites : dWrites[k] = i

\* the last write to the filename, if any, decides its content; a file no
\* task has written is as it was when the call started
FilesAsWritten ==
    \A n \in FileNames :
        LET ws == {k \in DOMAIN dWrites : dTasks[dWrites[k]] = n}
        IN  IF ws = {}
            THEN (n \in DOMAIN dFiles <=> n \in DOMAIN dFiles0)
                 /\ (n \in DOMAIN dFiles => dFiles[n] = dFiles0[n])
            ELSE n \in DOMAIN dFiles
                 /\ dFiles[n] = Body(dWrites[CHOOSE k \in ws : \A l \in ws : l <= k])

\* C16 as stated: a task that got a status error has had exactly one request,
\* its file is not written, the following tasks are attempted in order and the
\* call returns normally.
C16_StatusErrorOneRequest ==
    \A i \in DOMAIN dTasks :
        StatusErrorOn(i) =>
            /\ RequestsOf(i) = 1
            /\ ~WrittenBy(i)
            /\ FilesAsWritten
            /\ dIdx > i
            /\ dPc # "raised"
            /\ dPc = "done" => \A j \in DOMAIN dTasks : dResponses[j] # <<>>

\* C16 amended: the status error is the last answer of its task (no retry, no
\* sleep, no request after it; the only request when it answers the first
\* attempt, and only transport errors can have come before it), the task
\* writes nothing, the exception does not leave the loop, and the loop goes on
\* with the next task: when the call returns, every task has been requested.
C16_StatusErrorEndsTask ==
    \A i \in DOMAIN dTasks :
        StatusErrorOn(i) =>
            /\ dResponses[i][Len(dResponses[i])] = "status"
            /\ \A k \in 1..(Len(dResponses[i]) - 1) : dResponses[i][k] = "transport"
            /\ RequestsOf(i) = Len(dResponses[i])
            /\ Len(dSleeps[i]) = Len(dResponses[i]) - 1
            /\ ~WrittenBy(i)
            /\ FilesAsWritten
            /\ dIdx > i
            /\ dPc = "raised" => dIdx # i
            /\ \A j \in DOMAIN dTasks : j > dIdx => dResponses[j] = <<>>
            /\ dPc = "done" => dPrinted /\ \A j \in DOMAIN dTasks : dResponses[j] # <<>>

\* the first task got a status error on its only request, the second was
\* downloaded, and the call returned with a.json missing
C16_Witness ==
    /\ dPc = "done"
    /\ dPrinted
    /\ dTasks = <<"a.json", "b.json">>
    /\ dResponses = << <<"status">>, <<"ok">> >>
    /\ "a.json" \notin DOMAIN dFiles
    /\ dFiles["b.json"] = Body(2)

----------------------------------------------------------------------------
(* The version methods of Platform, called in any order *)

\* what .version holds when a run starts: nothing, or what an earlier
\* save_remote_version wrote
VersionFiles == {NoFile, FileWith(<<"1">>)}

InitPlatform ==
    /\ remote \in [Platforms -> Versions]
    /\ versionFile \in [Platforms -> VersionFiles]
    /\ versionFile0 = versionFile
    /\ pLast = None
    /\ pFresh = [p \in Platforms |-> FALSE]
    /\ mPc = "off" /\ mIdx = 0 /\ mRemoteVersion = <<>> /\ mChecked = <<>>
    /\ commits = <<>> /\ pushed = 0 /\ published = 0
    /\ OffAnnot
    /\ OffHandlers
    /\ OffFlash
    /\ OffDownload

\* platform.check_update()
PlatformCheckUpdate(p) ==
    /\ pLast' = [method |-> "check_update", platform |-> p,
                 fileExisted |-> versionFile[p].exists,
                 fresh |-> pFresh[p],
                 result |-> CheckUpdate(versionFile[p], remote[p])]
    /\ UNCHANGED <<pFresh, mainVars, annotVars, handlerVars, flashVars, downloadVars>>

\* platform.save_remote_version()
PlatformSaveRemoteVersion(p) ==
    /\ versionFile' = [versionFile EXCEPT ![p] = FileWith(remote[p])]
    /\ pFresh' = [pFresh EXCEPT ![p] = TRUE]
    /\ pLast' = [method |-> "save_remote_version", platform |-> p,
                 fileExisted |-> versionFile[p].exists,
                 fresh |-> pFresh[p],
                 result |-> FALSE]
    /\ UNCHANGED <<mPc, mIdx, remote, versionFile0, mRemoteVersion, mChecked, commits,
                   pushed, published, annotVars, handlerVars, flashVars, downloadVars>>

\* the platform's server publishes another version
PlatformPublish(p) ==
    /\ published < MaxPublishes
    /\ \E v \in Versions \ {remote[p]} : remote' = [remote EXCEPT ![p] = v]
    /\ published' = published + 1
    /\ pFresh' = [pFresh EXCEPT ![p] = FALSE]
    /\ UNCHANGED <<pLast, mPc, mIdx, versionFile, versionFile0, mRemoteVersion, mChecked,
                   commits, pushed, annotVars, handlerVars, flashVars, downloadVars>>

NextPlatform ==
    \/ \E p \in Platforms : PlatformCheckUpdate(p)
    \/ \E p \in Platforms : PlatformSaveRemoteVersion(p)
    \/ \E p \in Platforms : PlatformPublish(p)

SpecPlatform == InitPlatform /\ [][NextPlatform]_vars

----------------------------------------------------------------------------
(* C17: update detection *)

\* C17 as stated: whatever the remote version text, once save_remote_version
\* has run and the remote version has not changed since, check_update returns
\* False; and check_update returns True when .version is absent.
C17_UpdateDetectionConverges ==
    (pLast # None /\ pLast.method = "check_update") =>
        /\ pLast.fresh => pLast.result = FALSE
        /\ ~pLast.fileExisted => pLast.result = TRUE

----------------------------------------------------------------------------
(* C18: the versions main reads *)

PlatformOf(name) == CHOOSE p \in Platforms : PlatformName(p) = name

\* C18 as stated: for a platform main updates, the version in the commit
\* message, the version check_update compared and the version written to
\* .version are one string, also when the server publishes a new version
\* between the reads.
C18_OneVersionPerUpdate ==
    /\ (mPc \in {"get_configs", "save", "commit"} /\ mChecked # <<>>) =>
          mChecked = mRemoteVersion
    /\ mPc = "commit" => versionFile[mIdx].text = mRemoteVersion
    /\ \A i \in DOMAIN commits :
          versionFile[PlatformOf(commits[i].name)].text = commits[i].version

----------------------------------------------------------------------------
(* C19: the push *)

MainEnded == mPc \in {"done", "raised"}

\* the commits follow main's list: flash, html5, unity
CommitsInPlatformOrder ==
    \A i, j \in DOMAIN commits :
        i < j => PlatformOf(commits[i].name) < PlatformOf(commits[j].name)

\* nothing of an update has happened
NothingUpdated ==
    /\ versionFile = versionFile0
    /\ commits = <<>>
    /\ fPc = "off"
    /\ files = <<>>

\* C19 as stated: however main ends, it has pushed exactly when the run
\* created at least one commit: once, after the three platforms; and a run in
\* which no platform needed an update called nothing and pushed nothing.
C19_PushesIffCommitted ==
    /\ pushed <= 1
    /\ MainEnded => (pushed = 1 <=> commits # <<>>)
    /\ (mPc = "done" /\ commits = <<>>) => NothingUpdated
    /\ CommitsInPlatformOrder

\* the state part of C19 amended
PushOnlyAtEnd ==
    /\ pushed <= 1
    /\ pushed = 1 => mPc = "done" /\ commits # <<>>
    /\ mPc = "done" =>
          /\ mIdx = 4
          /\ pushed = 1 <=> commits # <<>>
          /\ commits = <<>> => NothingUpdated
    /\ mPc = "raised" => pushed = 0
    /\ CommitsInPlatformOrder

\* get_configs is entered only from a check_update that returned True
GetConfigsOnlyOnUpdate ==
    (mPc # "get_configs" /\ mPc' = "get_configs") =>
        mPc = "check" /\ CheckUpdate(versionFile[mIdx], remote[mIdx])

\* .version is written and a commit is made only after get_configs returned
SaveAndCommitOnlyAfterGetConfigs ==
    /\ versionFile' # versionFile => mPc = "save"
    /\ commits' # commits => mPc = "commit"
    /\ (mPc # "save" /\ mPc' = "save") => mPc = "get_configs"

\* C19 amended: when main runs to the end of its loop it pushes exactly when
\* the run created at least one commit, once, after flash, html5 and unity
\* have been handled in that order; with check_update False for all three,
\* get_configs and save_remote_version are never called and nothing is
\* committed or pushed.  When a platform raises, main ends with that
\* exception without pushing, also when an earlier platform was committed.
C19_PushAtEndIffCommitted ==
    /\ []PushOnlyAtEnd
    /\ [][GetConfigsOnlyOnUpdate /\ SaveAndCommitOnlyAfterGetConfigs]_vars

\* flash and unity were updated and committed, html5 was up to date, and
\* main pushed once at the end
C19_Witness ==
    /\ mPc = "done"
    /\ pushed = 1
    /\ Len(commits) = 2
    /\ commits[1].name = "flash"
    /\ commits[2].name = "unity"
    /\ versionFile[2] = versionFile0[2]

=============================================================================
